---- MODULE Spec2Model ----
(***************************************************************************)
(* Travel2Go package search: search_packages (main.py) driving             *)
(* scrape_flights_multi (scrapers/flights_multi.py) and                    *)
(* scrape_hotels_booking (scrapers/hotels_booking.py).                     *)
(*                                                                         *)
(* Units.  Money is counted in cents, ratings in hundredths of a star on   *)
(* the 0-5 scale, Booking review scores in tenths on the 0-10 scale,       *)
(* flight durations in tenths of an hour.  A Python None is the value      *)
(* None below; every test the code makes on a possibly-None value is       *)
(* written out.                                                            *)
(***************************************************************************)
EXTENDS Integers, Sequences, FiniteSets, TLC

VARIABLES
    request,        \* the SearchRequest being served
    flight_menu,    \* what one flight-provider call may return for this run
    pc,             \* position of search_packages
    sample_dates,   \* scrape_flights_multi: sample_dates
    dest_idx,       \* scrape_flights_multi: position in `destinations`
    results,        \* scrape_flights_multi: results
    probe_log,      \* per destination, what its probe produced
    flight_calls,   \* number of scrape_kayak_price calls issued so far
    tasks,          \* scrape_flights_multi: the calls of the gather in progress
    last_done,      \* position in tasks of the call that completed last
    orphans,        \* calls of an abandoned gather that are still running
    flights,        \* search_packages: flights
    flight_idx,     \* search_packages: position in flights[:20]
    hotel_calls,    \* the scrape_hotels_booking calls issued so far
    hotel_list,     \* search_packages: hotels, the list the last call returned
    packages,       \* search_packages: packages
    response        \* what the caller of search_packages receives

vars == << request, flight_menu, pc, sample_dates, dest_idx, results, probe_log,
           flight_calls, tasks, last_done, orphans, flights, flight_idx, hotel_calls,
           hotel_list, packages, response >>

None == -1

Min(a, b) == IF a <= b THEN a ELSE b

Abs(a) == IF a < 0 THEN 0 - a ELSE a

(***************************************************************************)
(* Python's round(a / b, n) on the scaled integers: nearest, ties to even. *)
(***************************************************************************)
RoundDiv(a, b) ==
    LET q == Abs(a) \div Abs(b)
        r == Abs(a) % Abs(b)
        m == IF 2 * r < Abs(b) THEN q
             ELSE IF 2 * r > Abs(b) THEN q + 1
             ELSE IF q % 2 = 0 THEN q ELSE q + 1
    IN  IF (a < 0) = (b < 0) THEN m ELSE 0 - m

(***************************************************************************)
(* Bounds of the model.                                                    *)
(***************************************************************************)
NumDests == 3

MaxCards == 2

\* the longest list of surviving destinations the capped loop is given
MaxResults == 23

(***************************************************************************)
(* Program constants.                                                      *)
(***************************************************************************)
SampleCount == 5

MaxFlightsProcessed == 20

MaxHotelCards == 15

SpeedKmh == 800

DefaultDistanceKm == 6000

(***************************************************************************)
(* Destinations.  The candidates are entries of ALL_DESTINATIONS taken in  *)
(* the order of the list (its positions 1, 4, 5, 6 and 26); the search     *)
(* walks the first NumDests of them.                                       *)
(***************************************************************************)
ALL_DESTINATIONS == SubSeq(<< "BCN", "FCO", "CDG", "LHR", "MEX" >>, 1, NumDests)

\* ALL_DESTINATIONS of main.py in full
DestinationList ==
    << "BCN", "LIS", "MAD", "FCO", "CDG", "LHR", "DUB", "AMS", "BER", "PRG",
       "ATH", "VIE", "BUD", "WAW", "CPH", "OSL", "STO", "HEL", "ZRH", "MUC",
       "BRU", "VCE", "NAP", "MXP", "OPO",
       "MEX", "BOG", "LIM", "GRU", "EZE", "SCL", "PTY", "CUN", "GDL", "MDE",
       "NRT", "ICN", "BKK", "SIN", "HKG", "DEL", "BOM", "DXB" >>

DESTINATIONS_INFO == { "BCN", "LIS", "MAD", "FCO", "CDG", "LHR", "DUB", "AMS", "MEX" }

DestCodes == { ALL_DESTINATIONS[i] : i \in 1..Len(ALL_DESTINATIONS) }

(***************************************************************************)
(* Calendar: datetime and timedelta as parse_period and the sampling loop  *)
(* use them.  A date is << year, month, day >>.                            *)
(***************************************************************************)
\* the month names are written here without their accents
months ==
    [ Janvier |-> 1, Fevrier |-> 2, Mars |-> 3, Avril |-> 4, Mai |-> 5, Juin |-> 6,
      Juillet |-> 7, Aout |-> 8, Septembre |-> 9, Octobre |-> 10, Novembre |-> 11,
      Decembre |-> 12 ]

IsLeap(y) == (y % 4 = 0 /\ y % 100 # 0) \/ y % 400 = 0

MonthLength(y, m) ==
    IF m = 2 THEN (IF IsLeap(y) THEN 29 ELSE 28)
    ELSE IF m \in {4, 6, 9, 11} THEN 30 ELSE 31

ValidYear(y) == y >= 1 /\ y <= 9999

\* (d - timedelta(days=1)) for the first day of a month
DayBefore(d) ==
    IF d[3] > 1 THEN << d[1], d[2], d[3] - 1 >>
    ELSE IF d[2] > 1 THEN << d[1], d[2] - 1, MonthLength(d[1], d[2] - 1) >>
    ELSE << d[1] - 1, 12, 31 >>

RECURSIVE AddDays(_, _)
AddDays(d, n) ==
    IF n = 0 THEN d
    ELSE IF d[3] < MonthLength(d[1], d[2]) THEN AddDays(<< d[1], d[2], d[3] + 1 >>, n - 1)
    ELSE IF d[2] < 12 THEN AddDays(<< d[1], d[2] + 1, 1 >>, n - 1)
    ELSE AddDays(<< d[1] + 1, 1, 1 >>, n - 1)

\* (end - start).days for two dates of the same month
DaysBetween(start, end) == end[3] - start[3]

(***************************************************************************)
(* parse_period.  A period is [n_tokens, month_name, year_numeric, year]:  *)
(* the number of space-separated tokens, the first token, whether the      *)
(* second token is a decimal number, and its value (the token is taken to  *)
(* be written without leading zeros, so it has four digits, as             *)
(* datetime.fromisoformat needs, exactly when 1000 <= year).  The result   *)
(* is [ok, start, end]; ok = FALSE stands for the exception raised by the  *)
(* unpacking, by the months lookup, by int(), by datetime() or by          *)
(* datetime.fromisoformat in the caller.                                   *)
(***************************************************************************)
parse_period(period) ==
    IF period.n_tokens # 2 \/ period.month_name \notin DOMAIN months \/ ~period.year_numeric
    THEN [ ok |-> FALSE, start |-> << 0, 0, 0 >>, end |-> << 0, 0, 0 >> ]
    ELSE
        LET month == months[period.month_name]
            year == period.year
            next_month == IF month = 12 THEN << year + 1, 1, 1 >> ELSE << year, month + 1, 1 >>
        IN  IF ~ValidYear(next_month[1]) \/ year < 1000
            THEN [ ok |-> FALSE, start |-> << 0, 0, 0 >>, end |-> << 0, 0, 0 >> ]
            ELSE [ ok |-> TRUE,
                   start |-> << year, month, 1 >>,
                   end |-> << year, month, DayBefore(next_month)[3] >> ]

\* the weekly stride a sampler might use instead (a faulty variant of SampleOffset)
SampleOffsetWeekly(delta, i) == 7 * i

\* offset of the i-th sample (i from 0)
SampleOffset(delta, i) ==
    IF delta >= SampleCount THEN (delta \div SampleCount) * i ELSE i

SampleDates(start, end) ==
    LET delta == DaysBetween(start, end)
    IN  [ k \in 1..Min(SampleCount, delta + 1) |-> AddDays(start, SampleOffset(delta, k - 1)) ]

(***************************************************************************)
(* Flight provider: scrape_kayak_price and estimate_flight_duration.       *)
(* A menu item [price, stops, has_baggage, duration_known] is one page the *)
(* provider may read: its lowest price, whether it says Direct/Nonstop,    *)
(* whether it says "baggage included".  scrape_kayak_price always fills    *)
(* duration_hours from estimate_flight_duration (duration_known = TRUE);   *)
(* FlightInfo declares the field Optional, and duration_known = FALSE is   *)
(* a quote that leaves it None.                                            *)
(***************************************************************************)
distances ==
    [ BCN |-> 6000, LIS |-> 5500, CDG |-> 5500, FCO |-> 6500, LHR |-> 5200, AMS |-> 5700,
      MEX |-> 3500, BOG |-> 4500, LIM |-> 6000, NRT |-> 10500, BKK |-> 13000, SIN |-> 15000 ]

estimate_flight_duration(origin, dest) ==
    LET distance == IF origin = "YUL" /\ dest \in DOMAIN distances
                    THEN distances[dest] ELSE DefaultDistanceKm
    IN  RoundDiv(distance * 10, SpeedKmh)

NoResult ==
    [ ok |-> FALSE, price |-> 0, stops |-> 0, duration_hours |-> None, has_baggage |-> FALSE ]

Quote(origin, dest, item) ==
    [ ok |-> TRUE,
      price |-> item.price,
      stops |-> item.stops,
      duration_hours |-> IF item.duration_known
                         THEN estimate_flight_duration(origin, dest) ELSE None,
      has_baggage |-> item.has_baggage ]

\* what one scrape_kayak_price call may return: None when the page shows no
\* price or when a timeout or page error is caught by its except, a quote
\* otherwise (an exception escaping the call is the action ProbeRaises)
CallOutcomes(dest) ==
    { NoResult } \cup { Quote(request.origin, dest, item) : item \in flight_menu }

(***************************************************************************)
(* scrape_flights_multi, one iteration of the loop over destinations.      *)
(***************************************************************************)
valid_prices(prices_data) == SelectSeq(prices_data, LAMBDA p : p.ok)

\* min(valid, key=price): the first element of lowest price
best_flight(valid) ==
    LET i == CHOOSE k \in 1..Len(valid) :
                 /\ \A j \in 1..Len(valid) : valid[k].price <= valid[j].price
                 /\ \A j \in 1..(k - 1) : valid[j].price > valid[k].price
    IN  valid[i]

\* the ceiling taken as the whole budget (a faulty variant of OverBudget)
OverWholeBudget(price, budget) == price > budget

\* the comparison written >= (a faulty variant of OverBudget)
OverBudgetInclusive(price, budget) == 2 * price >= budget

\* price > max_budget, where max_budget = request.budget * 0.5
OverBudget(price, budget) == 2 * price > budget

\* the test written `if max_stops and ...` (a faulty variant of TooManyStops)
TooManyStopsTruthy(stops, max_stops) == max_stops > 0 /\ stops > max_stops

TooManyStops(stops, max_stops) == max_stops >= 0 /\ stops > max_stops

\* max_duration > 0 and duration_hours > max_duration raises TypeError on None
DurationRaises(duration_hours, max_duration) == max_duration > 0 /\ duration_hours = None

TooLong(duration_hours, max_duration) ==
    max_duration > 0 /\ duration_hours # None /\ duration_hours > 10 * max_duration

BaggageMissing(has_baggage, baggage_included) == baggage_included /\ ~has_baggage

\* the filters in the order the code applies them; an exception raised on the
\* way is caught by the loop's except and skips the destination like a filter
Rejected(best, req) ==
    IF OverBudget(best.price, req.budget) THEN TRUE
    ELSE IF TooManyStops(best.stops, req.maxStops) THEN TRUE
    ELSE IF DurationRaises(best.duration_hours, req.maxFlightDuration) THEN TRUE
    ELSE IF TooLong(best.duration_hours, req.maxFlightDuration) THEN TRUE
    ELSE BaggageMissing(best.has_baggage, req.baggageIncluded)

\* the dict appended to results (city, country, flag, airline and
\* affiliate_url are fixed by the code and not carried)
ResultEntry(dest_code, best) ==
    [ code |-> dest_code, price |-> best.price, stops |-> best.stops,
      duration_hours |-> best.duration_hours, has_baggage |-> best.has_baggage ]

\* sorted(seq, key=price): stable, ascending
RECURSIVE InsertByPrice(_, _)
InsertByPrice(sorted, x) ==
    IF sorted = << >> THEN << x >>
    ELSE IF Head(sorted).price <= x.price THEN << Head(sorted) >> \o InsertByPrice(Tail(sorted), x)
    ELSE << x >> \o sorted

RECURSIVE SortedByPrice(_)
SortedByPrice(seq) ==
    IF seq = << >> THEN << >>
    ELSE InsertByPrice(SortedByPrice(SubSeq(seq, 1, Len(seq) - 1)), seq[Len(seq)])

(***************************************************************************)
(* Lodging provider: scrape_hotels_booking and get_mock_hotels.            *)
(* A rational a / b is the record [num |-> a, den |-> b]; the nightly      *)
(* ceiling is one (remaining_budget / nights), compared exactly.           *)
(* A card is one property card of the results page: [name, total_price,    *)
(* score], score being the review score read from it in tenths (0 when     *)
(* the card shows none).                                                   *)
(***************************************************************************)
\* a / b > c / d, for b and d not zero
RatGreater(a, b, c, d) ==
    LET n == a * d - c * b
    IN  IF (b > 0) = (d > 0) THEN n > 0 ELSE n < 0

HostelNames == { "Hostel One" }

ApartmentNames == { "City Apartment" }

\* "hostel" in name.lower(), else "apartment"/"apart" in name.lower(), else hotel
AccTypeOfName(name) ==
    IF name \in HostelNames THEN "hostel"
    ELSE IF name \in ApartmentNames THEN "apartment"
    ELSE "hotel"

\* the cards Booking may show
CardMenu ==
    { [ name |-> "Hotel Arts", total_price |-> 56000, score |-> 84 ],
      [ name |-> "Hostel One", total_price |-> 100000, score |-> 90 ],
      [ name |-> "City Apartment", total_price |-> 84000, score |-> 0 ] }

CardLists == UNION { [ 1..n -> CardMenu ] : n \in 0..MaxCards }

\* the body of the loop over hotel_cards[:15] for one card: kept or not
CardKept(card, max_price, nights, min_rating) ==
    /\ ~RatGreater(card.total_price, nights, max_price.num, max_price.den)
    /\ ~(min_rating > 0 /\ card.score * 5 < 100 * min_rating)

HotelOfCard(card, nights) ==
    [ name |-> card.name,
      price_per_night |-> RoundDiv(card.total_price, nights),
      rating |-> card.score * 5,
      accommodation_type |-> AccTypeOfName(card.name) ]

\* hotels.sort(key=rating / price_per_night, reverse=True): stable, descending
RECURSIVE InsertByValue(_, _)
InsertByValue(sorted, x) ==
    IF sorted = << >> THEN << x >>
    ELSE IF ~RatGreater(x.rating, x.price_per_night,
                        Head(sorted).rating, Head(sorted).price_per_night)
         THEN << Head(sorted) >> \o InsertByValue(Tail(sorted), x)
    ELSE << x >> \o sorted

RECURSIVE SortedByValue(_)
SortedByValue(seq) ==
    IF seq = << >> THEN << >>
    ELSE InsertByValue(SortedByValue(SubSeq(seq, 1, Len(seq) - 1)), seq[Len(seq)])

mock_hotels ==
    [ BCN |-> << [ name |-> "Hotel Catalonia", price_per_night |-> 8500, rating |-> 420,
                   accommodation_type |-> "hotel" ],
                 [ name |-> "Barcelona Hostel", price_per_night |-> 3500, rating |-> 380,
                   accommodation_type |-> "hostel" ],
                 [ name |-> "Gothic Quarter Apartment", price_per_night |-> 9500,
                   rating |-> 450, accommodation_type |-> "apartment" ] >>,
      LIS |-> << [ name |-> "Lisbon Central Hotel", price_per_night |-> 7000, rating |-> 400,
                   accommodation_type |-> "hotel" ],
                 [ name |-> "Alfama Hostel", price_per_night |-> 3000, rating |-> 390,
                   accommodation_type |-> "hostel" ] >>,
      CDG |-> << [ name |-> "Paris Marais Hotel", price_per_night |-> 12000, rating |-> 430,
                   accommodation_type |-> "hotel" ],
                 [ name |-> "Montmartre Apartment", price_per_night |-> 11000,
                   rating |-> 440, accommodation_type |-> "apartment" ] >>,
      FCO |-> << [ name |-> "Roma Centro Hotel", price_per_night |-> 9500, rating |-> 410,
                   accommodation_type |-> "hotel" ] >>,
      MEX |-> << [ name |-> "Mexico City Hotel", price_per_night |-> 6000, rating |-> 420,
                   accommodation_type |-> "hotel" ] >> ]

get_mock_hotels(city_code, max_price, min_rating, acc_type) ==
    LET city_hotels == IF city_code \in DOMAIN mock_hotels THEN mock_hotels[city_code]
                       ELSE << [ name |-> "Hotel", price_per_night |-> 8000, rating |-> 400,
                                 accommodation_type |-> "hotel" ] >>
        Keep(hotel) ==
            /\ ~RatGreater(hotel.price_per_night, 1, max_price.num, max_price.den)
            /\ ~(hotel.rating < 100 * min_rating)
            /\ ~(acc_type # "all" /\ hotel.accommodation_type # acc_type)
    IN  SelectSeq(city_hotels, Keep)

\* the scraped path of scrape_hotels_booking; the sort key divides by
\* price_per_night, and the ZeroDivisionError of a price rounded to 0.0 is
\* caught by the except that falls back to the mock data
scraped_hotels(cards, city_code, max_price, nights, min_rating, acc_type) ==
    LET shown == SubSeq(cards, 1, Min(Len(cards), MaxHotelCards))
        kept == SelectSeq(shown, LAMBDA c : CardKept(c, max_price, nights, min_rating))
        hotels == [ i \in 1..Len(kept) |-> HotelOfCard(kept[i], nights) ]
    IN  IF \E i \in 1..Len(hotels) : hotels[i].price_per_night = 0
        THEN get_mock_hotels(city_code, max_price, min_rating, acc_type)
        ELSE SortedByValue(hotels)

(***************************************************************************)
(* search_packages: the budget split and the package of one flight.        *)
(***************************************************************************)
\* max_hotel_per_night = (request.budget - flight["price"]) / request.nights
MaxHotelPerNight(budget, flight_price, nights) ==
    [ num |-> budget - flight_price, den |-> nights ]

\* one night charged (a faulty variant of TotalHotelCost)
TotalHotelCostOneNight(price_per_night, nights) == price_per_night

TotalHotelCost(price_per_night, nights) == price_per_night * nights

TotalPackageCost(flight_price, total_hotel_cost) == flight_price + total_hotel_cost

BudgetRemaining(budget, total_package_cost) == budget - total_package_cost

Package(flight, best_hotel, req) ==
    LET total_hotel_cost == TotalHotelCost(best_hotel.price_per_night, req.nights)
        total_package_cost == TotalPackageCost(flight.price, total_hotel_cost)
        budget_remaining == BudgetRemaining(req.budget, total_package_cost)
    IN  [ code |-> flight.code,
          flight |-> [ price |-> flight.price, duration_hours |-> flight.duration_hours,
                       stops |-> flight.stops, has_baggage |-> flight.has_baggage ],
          hotel |-> [ name |-> best_hotel.name,
                      price_per_night |-> best_hotel.price_per_night,
                      total_price |-> total_hotel_cost,
                      rating |-> best_hotel.rating,
                      accommodation_type |-> best_hotel.accommodation_type ],
          total_cost |-> total_package_cost,
          budget_remaining |-> budget_remaining,
          savings_pct |-> [ num |-> budget_remaining * 100, den |-> req.budget ] ]

\* packages.sort(key=budget_remaining, reverse=True): stable, descending
RECURSIVE InsertByRemaining(_, _)
InsertByRemaining(sorted, x) ==
    IF sorted = << >> THEN << x >>
    ELSE IF Head(sorted).budget_remaining >= x.budget_remaining
         THEN << Head(sorted) >> \o InsertByRemaining(Tail(sorted), x)
    ELSE << x >> \o sorted

RECURSIVE SortedByRemaining(_)
SortedByRemaining(seq) ==
    IF seq = << >> THEN << >>
    ELSE InsertByRemaining(SortedByRemaining(SubSeq(seq, 1, Len(seq) - 1)), seq[Len(seq)])

(***************************************************************************)
(* The requests and provider menus the specifications start from.          *)
(***************************************************************************)
Period(name, year) ==
    [ n_tokens |-> 2, month_name |-> name, year_numeric |-> TRUE, year |-> year ]

DefaultRequest ==
    [ origin |-> "YUL", budget |-> 150000, period |-> Period("Octobre", 2026), nights |-> 7,
      maxStops |-> -1, maxFlightDuration |-> -1, baggageIncluded |-> FALSE,
      minHotelRating |-> 0, accommodationType |-> "all" ]

MonthNames == DOMAIN months

\* every month of some years, and descriptors parse_period cannot resolve
SamplePeriods ==
    { Period(m, y) : m \in MonthNames, y \in { 2023, 2024, 2026, 2100, 9999 } }
    \cup { Period("Smarch", 2026), Period("Octobre", 26),
           [ n_tokens |-> 1, month_name |-> "Octobre2026", year_numeric |-> FALSE, year |-> 0 ],
           [ n_tokens |-> 2, month_name |-> "Octobre", year_numeric |-> FALSE, year |-> 0 ] }

SampleRequests == { [ DefaultRequest EXCEPT !.period = p ] : p \in SamplePeriods }

FlightRequests ==
    { [ DefaultRequest EXCEPT !.budget = b, !.maxStops = s, !.maxFlightDuration = d,
                              !.baggageIncluded = g ] :
        b \in { 99900, 100000, 180000 }, s \in { -1, 0, 1 }, d \in { -1, 7 },
        g \in BOOLEAN }

PackageRequests ==
    { [ DefaultRequest EXCEPT !.budget = b, !.nights = n, !.period = p ] :
        b \in { 0, 150000, 180000 }, n \in { -1, 0, 7 },
        p \in { Period("Octobre", 2026), Period("Smarch", 2026) } }

\* requests that set the lodging filters
LodgingRequests ==
    { [ DefaultRequest EXCEPT !.minHotelRating = r, !.accommodationType = t ] :
        r \in { 0, 4 }, t \in { "all", "hotel", "hostel" } }

Page(price, stops, has_baggage) ==
    [ price |-> price, stops |-> stops, has_baggage |-> has_baggage, duration_known |-> TRUE ]

KayakPages == { Page(50000, 0, TRUE), Page(90000, 1, FALSE) }

\* two pages showing the same lowest price, one of them a direct flight
TiedPages == { Page(50000, 0, TRUE), Page(50000, 1, FALSE) }

\* quotes of a flight provider that may leave duration_hours None
PortQuotes ==
    { [ price |-> 50000, stops |-> 0, has_baggage |-> TRUE, duration_known |-> FALSE ],
      Page(90000, 1, FALSE) }

NotProbed == [ status |-> "unprobed", best |-> NoResult ]

\* what the loop over destinations has gathered when each of the first n
\* codes of the full list survived: every stride-th one with the dear page,
\* the others with the cheap one
GatheredResults(origin, n, stride) ==
    [ i \in 1..n |->
        ResultEntry(DestinationList[i],
                    Quote(origin, DestinationList[i],
                          IF i % stride = 0 THEN Page(90000, 1, FALSE)
                          ELSE Page(50000, 0, TRUE))) ]

InitWith(requests, menu) ==
    /\ request \in requests
    /\ flight_menu = menu
    /\ pc = "start"
    /\ sample_dates = << >>
    /\ dest_idx = 1
    /\ results = << >>
    /\ probe_log = [ d \in DestCodes |-> NotProbed ]
    /\ flight_calls = 0
    /\ tasks = << >>
    /\ last_done = 0
    /\ orphans = 0
    /\ flights = << >>
    /\ flight_idx = 1
    /\ hotel_calls = << >>
    /\ hotel_list = << >>
    /\ packages = << >>
    /\ response = "pending"

(***************************************************************************)
(* Actions.                                                                *)
(***************************************************************************)
\* search_packages up to the sampling loop of scrape_flights_multi; an
\* exception of parse_period or fromisoformat reaches the outer except of
\* search_packages, which raises HTTPException(500)
StartSearch ==
    /\ pc = "start"
    /\ LET parsed == parse_period(request.period)
       IN  IF parsed.ok
           THEN /\ sample_dates' = SampleDates(parsed.start, parsed.end)
                /\ pc' = "probing"
                /\ response' = response
           ELSE /\ sample_dates' = sample_dates
                /\ pc' = "done"
                /\ response' = "http_500"
    /\ UNCHANGED << tasks, last_done, orphans,
                    request, flight_menu, dest_idx, results, probe_log, flight_calls,
                    flights, flight_idx, hotel_calls, hotel_list, packages >>

\* the try placed around the loop instead of inside it (a faulty variant of RaiseSkips)
RaiseAborts(dest_code) ==
    /\ pc' = "done"
    /\ response' = "http_500"
    /\ dest_idx' = dest_idx

\* what an exception escaping one destination's gather does to the loop:
\* the except inside the loop catches it and the loop continues
RaiseSkips(dest_code) ==
    /\ pc' = pc
    /\ response' = response
    /\ dest_idx' = dest_idx + 1

\* one iteration of the loop over destinations in which gather returns
ProbeGathers ==
    /\ pc = "probing"
    /\ dest_idx <= Len(ALL_DESTINATIONS)
    /\ LET dest_code == ALL_DESTINATIONS[dest_idx]
       IN  IF dest_code \notin DESTINATIONS_INFO
           THEN UNCHANGED << results, probe_log, flight_calls >>
           ELSE \E prices_data \in [ 1..Len(sample_dates) -> CallOutcomes(dest_code) ] :
                    LET valid == valid_prices(prices_data)
                    IN  /\ flight_calls' = flight_calls + Len(sample_dates)
                        /\ IF valid = << >>
                           THEN /\ probe_log' = [ probe_log EXCEPT ![dest_code] =
                                        [ status |-> "absent", best |-> NoResult ] ]
                                /\ results' = results
                           ELSE LET best == best_flight(valid)
                                IN  /\ probe_log' = [ probe_log EXCEPT ![dest_code] =
                                            [ status |-> "quoted", best |-> best ] ]
                                    /\ results' = IF Rejected(best, request) THEN results
                                                  ELSE Append(results, ResultEntry(dest_code, best))
    /\ dest_idx' = dest_idx + 1
    /\ UNCHANGED << tasks, last_done, orphans,
                    request, flight_menu, pc, sample_dates, flights, flight_idx,
                    hotel_calls, hotel_list, packages, response >>

\* one iteration in which a scrape_kayak_price call raises (async_playwright()
\* is entered outside the try): gather raises, the except of the loop prints
\* and continues
ProbeRaises ==
    /\ pc = "probing"
    /\ dest_idx <= Len(ALL_DESTINATIONS)
    /\ sample_dates # << >>
    /\ LET dest_code == ALL_DESTINATIONS[dest_idx]
       IN  /\ dest_code \in DESTINATIONS_INFO
           /\ flight_calls' = flight_calls + Len(sample_dates)
           /\ probe_log' = [ probe_log EXCEPT ![dest_code] =
                   [ status |-> "raised", best |-> NoResult ] ]
           /\ RaiseSkips(dest_code)
    /\ UNCHANGED << tasks, last_done, orphans,
                    request, flight_menu, sample_dates, results, flights, flight_idx,
                    hotel_calls, hotel_list, packages >>

(***************************************************************************)
(* The same loop at the grain of single scrape_kayak_price calls.  gather  *)
(* starts one call per sampled date; the calls complete in any order; the  *)
(* loop resumes when the last one has returned, or as soon as one raises.  *)
(* ProbeGathers and ProbeRaises above are these steps taken at once.       *)
(***************************************************************************)
Pending == [ done |-> FALSE, result |-> NoResult ]

\* the list handed over with the call that completed last moved to its end
\* (a faulty variant of GatherOrder)
GatherOrderCompleted(ts, last) ==
    [ j \in 1..Len(ts) |->
        IF j < last THEN ts[j].result
        ELSE IF j < Len(ts) THEN ts[j + 1].result
        ELSE ts[last].result ]

\* what `await asyncio.gather(*tasks)` hands over: the results in the order
\* of the tasks, whichever call completed last
GatherOrder(ts, last) == [ j \in 1..Len(ts) |-> ts[j].result ]

\* tasks = [scrape_kayak_price(...) for date in sample_dates]; gather starts them
GatherStarts ==
    /\ pc = "probing"
    /\ dest_idx <= Len(ALL_DESTINATIONS)
    /\ \A i \in 1..Len(tasks) : tasks[i].done
    /\ IF ALL_DESTINATIONS[dest_idx] \notin DESTINATIONS_INFO
       THEN /\ dest_idx' = dest_idx + 1
            /\ UNCHANGED << tasks, last_done, flight_calls >>
       ELSE /\ sample_dates # << >>
            /\ tasks' = [ i \in 1..Len(sample_dates) |-> Pending ]
            /\ last_done' = 0
            /\ flight_calls' = flight_calls + Len(sample_dates)
            /\ dest_idx' = dest_idx
    /\ UNCHANGED << orphans, request, flight_menu, pc, sample_dates, results, probe_log,
                    flights, flight_idx, hotel_calls, hotel_list, packages, response >>

\* the rest of the iteration once gather has handed over prices_data
LoopResumes(dest_code, prices_data) ==
    LET valid == valid_prices(prices_data)
    IN  /\ dest_idx' = dest_idx + 1
        /\ IF valid = << >>
           THEN /\ probe_log' = [ probe_log EXCEPT ![dest_code] =
                        [ status |-> "absent", best |-> NoResult ] ]
                /\ results' = results
           ELSE LET best == best_flight(valid)
                IN  /\ probe_log' = [ probe_log EXCEPT ![dest_code] =
                            [ status |-> "quoted", best |-> best ] ]
                    /\ results' = IF Rejected(best, request) THEN results
                                  ELSE Append(results, ResultEntry(dest_code, best))

\* one call of the gather in progress returns; when it is the last one, the
\* loop resumes with prices_data and runs to the end of the iteration
CallReturns ==
    /\ pc = "probing"
    /\ \E i \in 1..Len(tasks) :
           /\ ~tasks[i].done
           /\ \E outcome \in CallOutcomes(ALL_DESTINATIONS[dest_idx]) :
                  LET ts == [ tasks EXCEPT ![i] = [ done |-> TRUE, result |-> outcome ] ]
                  IN  /\ tasks' = ts
                      /\ last_done' = i
                      /\ IF \E j \in 1..Len(ts) : ~ts[j].done
                         THEN UNCHANGED << dest_idx, results, probe_log >>
                         ELSE LoopResumes(ALL_DESTINATIONS[dest_idx], GatherOrder(ts, i))
    /\ UNCHANGED << orphans, request, flight_menu, pc, sample_dates, flight_calls,
                    flights, flight_idx, hotel_calls, hotel_list, packages, response >>

\* one call of the gather in progress raises: gather passes the exception on
\* at once and does not cancel the other calls, which go on running while
\* the except of the loop continues with the next destination
CallRaises ==
    /\ pc = "probing"
    /\ \E i \in 1..Len(tasks) :
           /\ ~tasks[i].done
           /\ LET dest_code == ALL_DESTINATIONS[dest_idx]
                  running == { j \in 1..Len(tasks) : j # i /\ ~tasks[j].done }
              IN  /\ orphans' = orphans + Cardinality(running)
                  /\ tasks' = << >>
                  /\ last_done' = 0
                  /\ probe_log' = [ probe_log EXCEPT ![dest_code] =
                          [ status |-> "raised", best |-> NoResult ] ]
                  /\ RaiseSkips(dest_code)
    /\ UNCHANGED << request, flight_menu, sample_dates, results, flight_calls,
                    flights, flight_idx, hotel_calls, hotel_list, packages >>

\* a call left running by an abandoned gather ends; nothing reads its result
OrphanCompletes ==
    /\ orphans > 0
    /\ orphans' = orphans - 1
    /\ UNCHANGED << tasks, last_done, request, flight_menu, pc, sample_dates, dest_idx,
                    results, probe_log, flight_calls, flights, flight_idx, hotel_calls,
                    hotel_list, packages, response >>

\* scrape_flights_multi returns sorted(results); search_packages returns []
\* when there is no flight
FlightsReturn ==
    /\ pc = "probing"
    /\ dest_idx > Len(ALL_DESTINATIONS)
    /\ flights' = SortedByPrice(results)
    /\ IF flights' = << >>
       THEN pc' = "done" /\ response' = "ok"
       ELSE pc' = "hotels" /\ response' = response
    /\ UNCHANGED << tasks, last_done, orphans,
                    request, flight_menu, sample_dates, dest_idx, results, probe_log,
                    flight_calls, flight_idx, hotel_calls, hotel_list, packages >>

\* the loop over every flight (a faulty variant of Processed)
ProcessedAll == flights

Processed == SubSeq(flights, 1, Min(Len(flights), MaxFlightsProcessed))

NoHotel == [ name |-> "", price_per_night |-> 0, rating |-> 0, accommodation_type |-> "" ]

\* one scrape_hotels_booking call: its arguments, and what came back
\* (returned = FALSE when the call raised; first is hotels[0], or NoHotel)
HotelCall(flight, returned, hotels) ==
    [ code |-> flight.code, flight_price |-> flight.price,
      max_price_per_night |-> MaxHotelPerNight(request.budget, flight.price, request.nights),
      returned |-> returned,
      first |-> IF hotels = << >> THEN NoHotel ELSE hotels[1] ]

\* one iteration of the loop over flights[:20], given the list
\* scrape_hotels_booking returned (savings_pct divides by request.budget)
Assemble(flight, hotels) ==
    /\ hotel_calls' = Append(hotel_calls, HotelCall(flight, TRUE, hotels))
    /\ hotel_list' = hotels
    /\ packages' = IF hotels = << >> \/ request.budget = 0 THEN packages
                   ELSE Append(packages, Package(flight, hotels[1], request))
    /\ flight_idx' = flight_idx + 1

\* the division by request.nights raises ZeroDivisionError; the except of the
\* loop continues
LodgingSkipped ==
    /\ pc = "hotels"
    /\ flight_idx <= Len(Processed)
    /\ request.nights = 0
    /\ flight_idx' = flight_idx + 1
    /\ UNCHANGED << tasks, last_done, orphans,
                    request, flight_menu, pc, sample_dates, dest_idx, results, probe_log,
                    flight_calls, flights, hotel_calls, hotel_list, packages, response >>

LodgingScraped ==
    /\ pc = "hotels"
    /\ flight_idx <= Len(Processed)
    /\ request.nights # 0
    /\ LET flight == Processed[flight_idx]
           max_hotel_per_night == MaxHotelPerNight(request.budget, flight.price, request.nights)
       IN  \E cards \in CardLists :
               Assemble(flight, scraped_hotels(cards, flight.code, max_hotel_per_night,
                                               request.nights, request.minHotelRating,
                                               request.accommodationType))
    /\ UNCHANGED << tasks, last_done, orphans,
                    request, flight_menu, pc, sample_dates, dest_idx, results, probe_log,
                    flight_calls, flights, response >>

\* scraping fails inside the try: the mock data is returned
LodgingFallback ==
    /\ pc = "hotels"
    /\ flight_idx <= Len(Processed)
    /\ request.nights # 0
    /\ LET flight == Processed[flight_idx]
           max_hotel_per_night == MaxHotelPerNight(request.budget, flight.price, request.nights)
       IN  Assemble(flight, get_mock_hotels(flight.code, max_hotel_per_night,
                                            request.minHotelRating,
                                            request.accommodationType))
    /\ UNCHANGED << tasks, last_done, orphans,
                    request, flight_menu, pc, sample_dates, dest_idx, results, probe_log,
                    flight_calls, flights, response >>

\* async_playwright() fails outside the try: the exception reaches the
\* except of the loop over flights, which continues
LodgingRaises ==
    /\ pc = "hotels"
    /\ flight_idx <= Len(Processed)
    /\ request.nights # 0
    /\ hotel_calls' = Append(hotel_calls, HotelCall(Processed[flight_idx], FALSE, << >>))
    /\ hotel_list' = hotel_list
    /\ flight_idx' = flight_idx + 1
    /\ UNCHANGED << tasks, last_done, orphans,
                    request, flight_menu, pc, sample_dates, dest_idx, results, probe_log,
                    flight_calls, flights, packages, response >>

\* the list returned in the order of assembly (a faulty variant of Finish)
FinishUnsorted ==
    /\ pc = "hotels"
    /\ flight_idx > Len(Processed)
    /\ packages' = packages
    /\ pc' = "done"
    /\ response' = "ok"
    /\ UNCHANGED << tasks, last_done, orphans,
                    request, flight_menu, sample_dates, dest_idx, results, probe_log,
                    flight_calls, flights, flight_idx, hotel_calls, hotel_list >>

\* packages.sort(...) and return
Finish ==
    /\ pc = "hotels"
    /\ flight_idx > Len(Processed)
    /\ packages' = SortedByRemaining(packages)
    /\ pc' = "done"
    /\ response' = "ok"
    /\ UNCHANGED << tasks, last_done, orphans,
                    request, flight_menu, sample_dates, dest_idx, results, probe_log,
                    flight_calls, flights, flight_idx, hotel_calls, hotel_list >>

(***************************************************************************)
(* Specifications.                                                         *)
(***************************************************************************)
\* the whole search
Init == InitWith(PackageRequests, KayakPages)

Next ==
    \/ StartSearch
    \/ ProbeGathers
    \/ ProbeRaises
    \/ FlightsReturn
    \/ LodgingSkipped
    \/ LodgingScraped
    \/ LodgingFallback
    \/ LodgingRaises
    \/ Finish

Spec == Init /\ [][Next]_vars

\* the period sampler alone, over many periods
InitSample == InitWith(SampleRequests, KayakPages)

NextSample == StartSearch

SpecSample == InitSample /\ [][NextSample]_vars

\* the flight search (scrape_flights_multi and its call), over the flight filters
InitFlights == InitWith(FlightRequests, KayakPages)

NextFlights ==
    \/ StartSearch
    \/ ProbeGathers
    \/ ProbeRaises
    \/ FlightsReturn

SpecFlights == InitFlights /\ [][NextFlights]_vars

\* the flight search fed by a provider that may leave duration_hours None
InitPort ==
    InitWith({ [ DefaultRequest EXCEPT !.budget = 180000, !.maxFlightDuration = d ] :
                 d \in { -1, 5 } }, PortQuotes)

SpecPort == InitPort /\ [][NextFlights]_vars

\* the whole search for valid requests, over the lodging filters
InitLodging == InitWith(LodgingRequests, KayakPages)

NextLodging ==
    \/ StartSearch
    \/ ProbeGathers
    \/ ProbeRaises
    \/ FlightsReturn
    \/ LodgingScraped
    \/ LodgingFallback
    \/ LodgingRaises
    \/ Finish

SpecLodging == InitLodging /\ [][NextLodging]_vars

\* the flight search at the grain of single calls, none of which raises
InitGather == InitWith({ DefaultRequest }, TiedPages)

NextGather ==
    \/ StartSearch
    \/ GatherStarts
    \/ CallReturns
    \/ FlightsReturn

SpecGather == InitGather /\ [][NextGather]_vars

\* the flight search at the grain of single calls, some of which raise
InitCalls == InitWith({ DefaultRequest }, { Page(50000, 0, TRUE) })

NextCalls ==
    \/ StartSearch
    \/ GatherStarts
    \/ CallReturns
    \/ CallRaises
    \/ OrphanCompletes
    \/ FlightsReturn

SpecCalls == InitCalls /\ [][NextCalls]_vars

\* search_packages from the end of the loop over destinations, for candidate
\* lists that leave about MaxFlightsProcessed results or more; the lodging
\* provider answers from its fallback data
InitCap ==
    \E n \in (MaxFlightsProcessed - 1)..MaxResults, stride \in { 2, 3 } :
        /\ request = [ DefaultRequest EXCEPT !.budget = 180000 ]
        /\ flight_menu = KayakPages
        /\ pc = "probing"
        /\ sample_dates = SampleDates(parse_period(request.period).start,
                                      parse_period(request.period).end)
        /\ dest_idx = Len(ALL_DESTINATIONS) + 1
        /\ results = GatheredResults(request.origin, n, stride)
        /\ probe_log = [ d \in DestCodes |->
                           IF \E i \in 1..n : results[i].code = d
                           THEN [ status |-> "quoted",
                                  best |-> LET i == CHOOSE k \in 1..n : results[k].code = d
                                           IN  [ ok |-> TRUE, price |-> results[i].price,
                                                 stops |-> results[i].stops,
                                                 duration_hours |-> results[i].duration_hours,
                                                 has_baggage |-> results[i].has_baggage ] ]
                           ELSE NotProbed ]
        /\ flight_calls = n * Len(sample_dates)
        /\ tasks = << >>
        /\ last_done = 0
        /\ orphans = 0
        /\ flights = << >>
        /\ flight_idx = 1
        /\ hotel_calls = << >>
        /\ hotel_list = << >>
        /\ packages = << >>
        /\ response = "pending"

NextCap ==
    \/ FlightsReturn
    \/ LodgingFallback
    \/ Finish

SpecCap == InitCap /\ [][NextCap]_vars

(***************************************************************************)
(* Vocabulary of the properties.                                           *)
(***************************************************************************)
ResultCodes == { results[i].code : i \in 1..Len(results) }

PackageCodes == { packages[i].code : i \in 1..Len(packages) }

HotelCallCodes == { hotel_calls[i].code : i \in 1..Len(hotel_calls) }

Returned == pc = "done" /\ response = "ok"

FlightsReturned == pc \in { "hotels", "done" } /\ sample_dates # << >>

\* lengths of the months of the Gregorian calendar
CalendarDays(y, m) ==
    << 31, IF (y % 4 = 0 /\ y % 100 # 0) \/ y % 400 = 0 THEN 29 ELSE 28,
       31, 30, 31, 30, 31, 31, 30, 31, 30, 31 >>[m]

DateBefore(a, b) ==
    \/ a[1] < b[1]
    \/ a[1] = b[1] /\ a[2] < b[2]
    \/ a[1] = b[1] /\ a[2] = b[2] /\ a[3] < b[3]

\* alphabetical rank of the destination codes
CodeRank == [ BCN |-> 1, CDG |-> 2, FCO |-> 3, LHR |-> 4, MEX |-> 5 ]

\* a quote is within the stops, duration and baggage limits of the request
\* as the specification words them (an unknown duration is within the limit)
WithinStops(q) == request.maxStops < 0 \/ q.stops <= request.maxStops

WithinDuration(q) ==
    \/ request.maxFlightDuration <= 0
    \/ q.duration_hours = None
    \/ q.duration_hours <= 10 * request.maxFlightDuration

WithinBaggage(q) == ~request.baggageIncluded \/ q.has_baggage

Quoted(d) == probe_log[d].status = "quoted"

\* scrape_kayak_price calls started and not yet ended
Outstanding == orphans + Cardinality({ i \in 1..Len(tasks) : ~tasks[i].done })

\* the gather of the destination before dest_idx has handed over its results
GatherComplete == tasks # << >> /\ \A i \in 1..Len(tasks) : tasks[i].done

GatheredDest == ALL_DESTINATIONS[dest_idx - 1]

\* positions of the per-date results that are quotes
QuotedDates == { i \in 1..Len(tasks) : tasks[i].result.ok }

\* a lodging quote respects the filters of the request
WithinRating(h) == request.minHotelRating > 0 => h.rating >= 100 * request.minHotelRating

WithinType(h) ==
    request.accommodationType # "all" => h.accommodation_type = request.accommodationType

\* a duration for comparison, an unknown one being longer than any known one
DurationRank(q) == IF q.duration_hours = None THEN 1000000 ELSE q.duration_hours

\* the earliest sampled date among those whose quote has the lowest price
FirstCheapest ==
    CHOOSE m \in QuotedDates :
        \A i \in QuotedDates :
            \/ tasks[m].result.price < tasks[i].result.price
            \/ tasks[m].result.price = tasks[i].result.price /\ m <= i

\* the destinations whose selected quote passes the filters, in list order,
\* with the entries they give
Survivors ==
    SelectSeq(ALL_DESTINATIONS,
              LAMBDA d : Quoted(d) /\ ~Rejected(probe_log[d].best, request))

SurvivorEntries ==
    [ k \in 1..Len(Survivors) |-> ResultEntry(Survivors[k], probe_log[Survivors[k]].best) ]

\* the worked scenario of the specification: the request, what the flight
\* provider gave for each candidate, and the first lodging quote for BCN
WorkedScenario ==
    /\ Returned
    /\ request = DefaultRequest
    /\ Quoted("BCN") /\ probe_log["BCN"].best.price = 50000
    /\ Quoted("CDG") /\ probe_log["CDG"].best.price = 90000
    /\ \A d \in DestCodes \ { "BCN", "CDG" } : ~Quoted(d)
    /\ \E i \in 1..Len(hotel_calls) :
           /\ hotel_calls[i].code = "BCN"
           /\ hotel_calls[i].returned
           /\ hotel_calls[i].first.price_per_night = 8000

\* a request the specification calls malformed
InvalidInput ==
    \/ request.period.n_tokens # 2
    \/ request.period.month_name \notin MonthNames
    \/ ~request.period.year_numeric
    \/ request.period.year < 1000 \/ request.period.year > 9999
    \/ request.nights < 1
    \/ request.budget <= 0

(***************************************************************************)
(* C1.  The worked scenario: origin YUL, budget 1500, 7 nights, no filter, *)
(* BCN's best flight 500 and CDG's 900, nothing for any other candidate,   *)
(* and the lodging provider's first quote for BCN at 80 a night.  The      *)
(* search returns exactly one package, for BCN, with total cost 1060 and   *)
(* 440 left; CDG gets no lodging call and no package.                      *)
(***************************************************************************)
C1_ScenarioYieldsOnePackage ==
    WorkedScenario =>
        /\ Len(packages) = 1
        /\ packages[1].code = "BCN"
        /\ packages[1].total_cost = 106000
        /\ packages[1].budget_remaining = 44000
        /\ "CDG" \notin HotelCallCodes

C1_Witness == WorkedScenario /\ Len(packages) = 1

(***************************************************************************)
(* C2.  For every calendar month the sampled dates are min(5, days of the  *)
(* month) in number, lie between the first and the last day of the month,  *)
(* and are strictly increasing.                                            *)
(***************************************************************************)
C2_SampleWithinPeriod ==
    pc = "probing" =>
        LET y == request.period.year
            m == months[request.period.month_name]
            first == << y, m, 1 >>
            last == << y, m, CalendarDays(y, m) >>
        IN  /\ Len(sample_dates) = Min(5, CalendarDays(y, m))
            /\ \A i \in 1..Len(sample_dates) :
                   /\ ~DateBefore(sample_dates[i], first)
                   /\ ~DateBefore(last, sample_dates[i])
            /\ \A i \in 1..Len(sample_dates), j \in 1..Len(sample_dates) :
                   i < j => DateBefore(sample_dates[i], sample_dates[j])

C2_Witness ==
    /\ pc = "probing"
    /\ request.period = Period("Fevrier", 2023)
    /\ sample_dates = << << 2023, 2, 1 >>, << 2023, 2, 6 >>, << 2023, 2, 11 >>,
                         << 2023, 2, 16 >>, << 2023, 2, 21 >> >>

(***************************************************************************)
(* C3.  A destination whose cheapest quote costs more than half the budget *)
(* has no entry in the result; a cheapest quote at exactly half the budget *)
(* that is within the other limits has one.                                *)
(***************************************************************************)
C3_CeilingFilter ==
    \A d \in DestCodes :
        Quoted(d) =>
            LET best == probe_log[d].best
            IN  /\ 2 * best.price > request.budget => d \notin ResultCodes
                /\ ( /\ 2 * best.price = request.budget
                     /\ WithinStops(best) /\ WithinDuration(best) /\ WithinBaggage(best) )
                   => d \in ResultCodes

C3_Witness ==
    /\ \E d \in DestCodes :
           Quoted(d) /\ 2 * probe_log[d].best.price > request.budget /\ d \notin ResultCodes
    /\ \E d \in DestCodes :
           Quoted(d) /\ 2 * probe_log[d].best.price = request.budget /\ d \in ResultCodes

(***************************************************************************)
(* C4.  With max_stops >= 0 no entry of the result has more stops than     *)
(* max_stops; with max_stops = -1 a destination within the other limits    *)
(* has its entry whatever its stop count.                                  *)
(***************************************************************************)
C4_StopsFilter ==
    /\ request.maxStops >= 0 =>
           /\ \A i \in 1..Len(results) : results[i].stops <= request.maxStops
           /\ \A i \in 1..Len(flights) : flights[i].stops <= request.maxStops
    /\ request.maxStops = -1 =>
           \A d \in DestCodes :
               ( /\ Quoted(d)
                 /\ 2 * probe_log[d].best.price <= request.budget
                 /\ WithinDuration(probe_log[d].best)
                 /\ WithinBaggage(probe_log[d].best) )
               => d \in ResultCodes

C4_Witness ==
    /\ request.maxStops = 0
    /\ results # << >>
    /\ \E d \in DestCodes :
           /\ Quoted(d)
           /\ probe_log[d].best.stops = 1
           /\ 2 * probe_log[d].best.price <= request.budget
           /\ WithinDuration(probe_log[d].best)
           /\ d \notin ResultCodes

C6_PriceThenCodeOrder ==
    \A i \in 1..Len(flights), j \in 1..Len(flights) :
        i < j =>
            \/ flights[i].price < flights[j].price
            \/ /\ flights[i].price = flights[j].price
               /\ CodeRank[flights[i].code] < CodeRank[flights[j].code]

(***************************************************************************)
(* C7.  A destination all of whose calls return nothing, or one of whose   *)
(* calls raises, has no entry; the search goes on to every other           *)
(* destination, each of which has the entry its own best quote gives it    *)
(* (or none); and no error reaches the caller.                             *)
(***************************************************************************)
C7_FailureIsolated ==
    /\ pc = "probing" => response = "pending"
    /\ FlightsReturned => dest_idx = Len(ALL_DESTINATIONS) + 1 /\ response # "http_500"
    /\ \A k \in 1..Len(ALL_DESTINATIONS) :
           k < dest_idx =>
               LET d == ALL_DESTINATIONS[k]
                   best == probe_log[d].best
               IN  /\ probe_log[d].status # "unprobed"
                   /\ probe_log[d].status \in { "absent", "raised" } => d \notin ResultCodes
                   /\ Quoted(d) =>
                          ( d \in ResultCodes <=>
                              /\ 2 * best.price <= request.budget
                              /\ WithinStops(best) /\ WithinDuration(best)
                              /\ WithinBaggage(best) )
                   /\ \A i \in 1..Len(results) :
                          results[i].code = d =>
                              /\ results[i].price = best.price
                              /\ results[i].stops = best.stops
                              /\ results[i].has_baggage = best.has_baggage

C7_Witness ==
    /\ FlightsReturned
    /\ \E a \in 1..Len(ALL_DESTINATIONS), b \in 1..Len(ALL_DESTINATIONS),
          c \in 1..Len(ALL_DESTINATIONS) :
           /\ a < c /\ b < c
           /\ probe_log[ALL_DESTINATIONS[a]].status = "raised"
           /\ probe_log[ALL_DESTINATIONS[b]].status = "absent"
           /\ \E i \in 1..Len(flights) : flights[i].code = ALL_DESTINATIONS[c]

(***************************************************************************)
(* C8.  A request whose period names no month of a valid year, or whose    *)
(* nights < 1, or whose budget <= 0, is answered by an error, and no       *)
(* provider call is issued for it.                                         *)
(***************************************************************************)
C8_InputErrorsReported ==
    InvalidInput =>
        /\ flight_calls = 0
        /\ hotel_calls = << >>
        /\ pc = "done" => response = "http_500"

(***************************************************************************)
(* C9.  Every package has total_cost = flight price + price per night x    *)
(* nights, hotel total_price = price per night x nights, and               *)
(* budget_remaining = budget - total_cost.                                 *)
(***************************************************************************)
C9_PackageArithmetic ==
    \A i \in 1..Len(packages) :
        LET p == packages[i]
        IN  /\ p.total_cost = p.flight.price + p.hotel.price_per_night * request.nights
            /\ p.hotel.total_price = p.hotel.price_per_night * request.nights
            /\ p.budget_remaining = request.budget - p.total_cost

C9_Witness ==
    /\ Returned
    /\ request.nights = 7
    /\ \E i \in 1..Len(packages) :
           packages[i].hotel.price_per_night = 14286 /\ packages[i].total_cost = 150002

(***************************************************************************)
(* C10.  Every nightly ceiling handed to the lodging provider is strictly  *)
(* positive and satisfies ceiling x nights + flight price <= budget.       *)
(***************************************************************************)
C10_CeilingPositiveWithinBudget ==
    \A i \in 1..Len(hotel_calls) :
        LET c == hotel_calls[i]
            ceiling == c.max_price_per_night
        IN  /\ RatGreater(ceiling.num, ceiling.den, 0, 1)
            /\ ~RatGreater(ceiling.num * request.nights, ceiling.den,
                           request.budget - c.flight_price, 1)

(***************************************************************************)
(* C11.  The returned package list is in descending order of               *)
(* budget_remaining, and of two packages with equal budget_remaining the   *)
(* one with the lower total_cost comes first.                              *)
(***************************************************************************)
C11_RankedByRemaining ==
    Returned =>
        \A i \in 1..Len(packages), j \in 1..Len(packages) :
            i < j =>
                /\ packages[i].budget_remaining >= packages[j].budget_remaining
                /\ packages[i].budget_remaining = packages[j].budget_remaining
                   => packages[i].total_cost <= packages[j].total_cost

\* the sort moved a package assembled later (a dearer flight) ahead of an
\* earlier one, and two packages tie on budget_remaining
C11_Witness ==
    /\ Returned
    /\ \E i \in 1..Len(packages), j \in 1..Len(packages) :
           /\ i < j
           /\ packages[i].flight.price > packages[j].flight.price
           /\ packages[i].budget_remaining > packages[j].budget_remaining
    /\ \E i \in 1..Len(packages), j \in 1..Len(packages) :
           i < j /\ packages[i].budget_remaining = packages[j].budget_remaining

(***************************************************************************)
(* C12.  At most 20 lodging calls are issued per search, all of them for   *)
(* the first 20 flights of the price-ordered list; a flight beyond the     *)
(* 20th costs no less than any of the first 20, gets no lodging call and   *)
(* is in no package.                                                       *)
(***************************************************************************)
C12_LodgingCallsCapped ==
    pc \in { "hotels", "done" } =>
        /\ Len(hotel_calls) <= 20
        /\ \A i \in 1..Len(hotel_calls) :
               \E k \in 1..Min(20, Len(flights)) : flights[k].code = hotel_calls[i].code
        /\ \A k \in 1..Len(flights) :
               k > 20 =>
                   /\ flights[k].code \notin HotelCallCodes
                   /\ flights[k].code \notin PackageCodes
                   /\ \A i \in 1..20 : flights[i].price <= flights[k].price

C12_Witness ==
    /\ Returned
    /\ Len(flights) = 22
    /\ Len(hotel_calls) = 20
    /\ Len(packages) = 20
    /\ flights[21].code \notin PackageCodes

(***************************************************************************)
(* C13.  The destinations are probed one at a time (a concurrency limit of *)
(* one), so at every instant the scrape_kayak_price calls started and not  *)
(* yet ended number at most one destination's calls, the number of sampled *)
(* dates, whatever the number of candidate destinations.                   *)
(***************************************************************************)
C13_OutstandingCallsBounded == Outstanding <= Len(sample_dates)

(***************************************************************************)
(* C14.  The quote kept for a destination is one of its per-date quotes,   *)
(* of the lowest price; among the quotes of that price it has the fewest   *)
(* stops, and among those the shortest duration, an unknown duration       *)
(* counting as the longest.                                                *)
(***************************************************************************)
C14_CheapestThenFewestStops ==
    (GatherComplete /\ QuotedDates # {}) =>
        LET best == probe_log[GatheredDest].best
        IN  /\ Quoted(GatheredDest)
            /\ \E i \in QuotedDates : tasks[i].result = best
            /\ \A i \in QuotedDates :
                   LET r == tasks[i].result
                   IN  /\ best.price <= r.price
                       /\ r.price = best.price => best.stops <= r.stops
                       /\ (r.price = best.price /\ r.stops = best.stops)
                          => DurationRank(best) <= DurationRank(r)

(***************************************************************************)
(* C15.  The quote selected for a destination is fixed by its per-date     *)
(* results alone (it is the quote of the earliest date among those of      *)
(* lowest price, nothing when no date has a quote), whatever the order in  *)
(* which the calls completed; and the flight list returned is fixed by the *)
(* selected quotes.                                                        *)
(***************************************************************************)
C15_CompletionOrderIrrelevant ==
    /\ GatherComplete =>
           IF QuotedDates = {}
           THEN probe_log[GatheredDest].status = "absent"
           ELSE /\ Quoted(GatheredDest)
                /\ probe_log[GatheredDest].best = tasks[FirstCheapest].result
    /\ FlightsReturned => flights = SortedByPrice(SurvivorEntries)

\* the list is returned; in the last gather the call that gave the selected
\* quote completed last although it is not the last of the tasks, and a
\* later date has a quote of the same price with another stop count
C15_Witness ==
    /\ FlightsReturned
    /\ GatherComplete
    /\ QuotedDates # {}
    /\ last_done = FirstCheapest
    /\ last_done < Len(tasks)
    /\ \E j \in QuotedDates :
           /\ j > FirstCheapest
           /\ tasks[j].result.price = tasks[FirstCheapest].result.price
           /\ tasks[j].result.stops # tasks[FirstCheapest].result.stops
    /\ \E i \in 1..Len(flights) : flights[i].code = GatheredDest

(***************************************************************************)
(* C16.  Every lodging quote returned by scrape_hotels_booking has a       *)
(* rating of at least min_rating when min_rating > 0 and the requested     *)
(* accommodation type when that is not "all", and so has the hotel of      *)
(* every package.                                                          *)
(***************************************************************************)
C16_LodgingFiltersRespected ==
    /\ \A k \in 1..Len(hotel_list) :
           WithinRating(hotel_list[k]) /\ WithinType(hotel_list[k])
    /\ \A i \in 1..Len(packages) :
           WithinRating(packages[i].hotel) /\ WithinType(packages[i].hotel)

(***************************************************************************)
(* C17.  Every list returned by scrape_hotels_booking is in descending     *)
(* order of rating / price_per_night, so that its first element is the     *)
(* best of the list.                                                       *)
(***************************************************************************)
C17_LodgingBestFirst ==
    \A k \in 1..Len(hotel_list), m \in 1..Len(hotel_list) :
        k < m => ~RatGreater(hotel_list[m].rating, hotel_list[m].price_per_night,
                             hotel_list[k].rating, hotel_list[k].price_per_night)

(***************************************************************************)
(* C18.  For a request with budget > 0 and nights >= 1, every package has  *)
(* total_cost <= budget, budget_remaining >= 0 and a flight price of at    *)
(* most half the budget.                                                   *)
(***************************************************************************)
C18_PackageWithinBudget ==
    (request.budget > 0 /\ request.nights >= 1) =>
        \A i \in 1..Len(packages) :
            /\ packages[i].total_cost <= request.budget
            /\ packages[i].budget_remaining >= 0
            /\ 2 * packages[i].flight.price <= request.budget

====
